---- MODULE Spec2Model ----
(***************************************************************************)
(* Model of lib/stasRedeemSplit.js (vaionex/stas-sdk): the redeem-split    *)
(* transaction builder unSignedFunc, its wrapper signedFunc, and the three *)
(* exported entry points signed, unSigned and feeEstimate.                 *)
(*                                                                         *)
(* Scripts are modelled by what the builder reads of them: the token kind, *)
(* the owner and redemption public-key hashes and the byte length.  A data *)
(* payload is modelled by its byte length.  Collaborators that live in     *)
(* other files of the repository (errors, utility, stasTemplates,          *)
(* stasFeeEstimates) are modelled from the specification's description.    *)
(*                                                                         *)
(* Amounts are integers.  unSignedFunc itself never compares an amount     *)
(* with zero, so a negative redeem or change amount is carried into the    *)
(* transaction as computed; what the transaction library does with it      *)
(* later is outside this file.  A throw is modelled by the error it        *)
(* raises: the build's transaction, plan and descriptors are dropped.      *)
(***************************************************************************)
EXTENDS Integers, Sequences, FiniteSets

VARIABLES pc, entry, args, est, txCost, real, result, prev

vars == <<pc, entry, args, est, txCost, real, result, prev>>

(***************************************************************************)
(* Bounds and input domains.                                               *)
(***************************************************************************)
MaxDest == 2

StasSats == {3, 10000}
DestSats == {1, 3000}
PaymentSats == {50, 110, 1000}
Addresses == {"addrA", "addrR"}
DataLens == {3, 1000}

NoKey == "none"

NoScript == [type |-> "none", isStas20 |-> FALSE, ownerPkh |-> "", redeemPkh |-> "", len |-> 0]

StasScripts ==
  { [type |-> "stas", isStas20 |-> FALSE, ownerPkh |-> "O", redeemPkh |-> "R", len |-> 1431],
    [type |-> "stas", isStas20 |-> TRUE, ownerPkh |-> "O", redeemPkh |-> "R", len |-> 1543] }

\* A UTXO argument: absent (undefined), malformed, or a well-formed UTXO.
NoUtxo == [present |-> FALSE, wellFormed |-> FALSE, satoshis |-> 0, script |-> NoScript]

StasUtxos ==
  {NoUtxo, [present |-> TRUE, wellFormed |-> FALSE, satoshis |-> 0, script |-> NoScript]}
  \cup {[present |-> TRUE, wellFormed |-> TRUE, satoshis |-> s, script |-> sc] :
          s \in StasSats, sc \in StasScripts}

P2pkh(pkh) == [type |-> "p2pkh", isStas20 |-> FALSE, ownerPkh |-> pkh, redeemPkh |-> "", len |-> 25]

PaymentUtxos ==
  {NoUtxo} \cup {[present |-> TRUE, wellFormed |-> TRUE, satoshis |-> s, script |-> P2pkh("P")] :
                   s \in PaymentSats}

Destination == [address : Addresses, satoshis : DestSats]

SeqUpTo(S, n) == UNION {[1..k -> S] : k \in 0..n}

\* The splitDestinations argument: absent, or a list of at most MaxDest entries.
NoDestinations == [present |-> FALSE, list |-> <<>>]
DestinationLists ==
  {NoDestinations} \cup {[present |-> TRUE, list |-> l] : l \in SeqUpTo(Destination, MaxDest)}

\* The data argument: undefined, or a payload of the given byte length.
NoData == [defined |-> FALSE, len |-> 0]
Datas == {NoData} \cup {[defined |-> TRUE, len |-> n] : n \in DataLens}

(***************************************************************************)
(* Collaborators: utility (addresses, keys).                               *)
(***************************************************************************)
PublicKeyOf(sk) ==
  CASE sk = "skO" -> "pkO" [] sk = "skP" -> "pkP" [] sk = "skT" -> "pkT" [] OTHER -> NoKey

getPKHfromPublicKey(pk) ==
  CASE pk = "pkO" -> "O" [] pk = "pkP" -> "P" [] pk = "pkT" -> "T" [] OTHER -> ""

addressToPKH(address) ==
  CASE address = "addrA" -> "A" [] address = "addrR" -> "R" [] address = "addrT" -> "T" [] OTHER -> ""

buildP2pkhOutputScript(pkh) == P2pkh(pkh)

\* utility.SATS: the fee rate, in satoshis per 1000 bytes.
SATS == 50

(***************************************************************************)
(* Collaborators: stasTemplates (the token script template engine).        *)
(***************************************************************************)
checkIfStas20(script) == script.isStas20

getRedeemPublicKeyHash(script) == script.redeemPkh

updateStasScript(pkh, script) == [script EXCEPT !.ownerPkh = pkh]

\* Bytes of a push of n bytes of data (opcode or length prefix, then the data).
PushLen(n) == n + (IF n < 76 THEN 1 ELSE IF n < 256 THEN 2 ELSE 3)

\* Bytes of a push of the script number v.
NumPushLen(v) ==
  IF v >= 0 /\ v <= 16 THEN 1
  ELSE IF v < 128 THEN 2 ELSE IF v < 32768 THEN 3 ELSE IF v < 8388608 THEN 4 ELSE 5

\* The payload as a pushed byte string; its length is what the builder adds.
formatDataToHexStringWithOpCodeConversion(data) == [data EXCEPT !.len = PushLen(data.len)]

VarIntLen(n) == IF n < 253 THEN 1 ELSE IF n < 65536 THEN 3 ELSE 5

\* The sum of f[1], ..., f[k].
RECURSIVE SumTo(_, _)
SumTo(f, k) == IF k = 0 THEN 0 ELSE f[k] + SumTo(f, k - 1)

\* Bytes of the plan's entries: per entry the amount and the 20-byte hash.
PlanLen(plan) ==
  SumTo([i \in 1..Len(plan) |-> NumPushLen(plan[i].satoshis) + PushLen(20)], Len(plan))

\* The unsigned prefix of the token input's unlocking script.  It commits to
\* the output plan, the token kind, the data payload, the presence of a
\* change output and of a funding input, and carries the sighash preimage.
buildUnlockingScriptUnsigned(tx, outputData, isStas20, data, isZeroFee, isZeroChange) ==
  LET stasLen == tx.inputs[1].output.script.len
      changePart == IF isZeroFee \/ isZeroChange THEN 2 ELSE 0
      dataPart == IF isStas20 /\ data.defined THEN PushLen(data.len) ELSE 1
      fundingPart == IF isZeroFee THEN 2 ELSE NumPushLen(1) + PushLen(32)
      preimage == 156 + VarIntLen(stasLen) + stasLen
  IN [len |-> PlanLen(outputData) + changePart + dataPart + fundingPart + PushLen(preimage),
      plan |-> outputData]

(***************************************************************************)
(* Collaborators: errors (argument validation and the two checks).         *)
(***************************************************************************)
\* TRUE when the arguments are accepted: both UTXO arguments well-formed
\* (the payment UTXO may be absent), both public keys and the list present.
validateRedeemSplitArgs(ownerPublicKey, stasUtxo, paymentPublicKey, paymentUtxo, splitDestinations) ==
  /\ ownerPublicKey # NoKey
  /\ paymentPublicKey # NoKey
  /\ stasUtxo.present /\ stasUtxo.wellFormed
  /\ paymentUtxo.present => paymentUtxo.wellFormed
  /\ splitDestinations.present

\* TRUE when the destination is accepted for the token kind.
checkDestinationAddressCondition(redeemAddr, destinationPublicKeyHash, isStas20) ==
  isStas20 \/ redeemAddr # destinationPublicKeyHash

\* The minimum amount below which the change check fails.
DustThreshold == 10

\* TRUE when the check passes.
checkZeroChangeThreshold(paymentSats, cost) == paymentSats - cost >= DustThreshold

(***************************************************************************)
(* Collaborators: stasFeeEstimates (the placeholders of the estimate).     *)
(***************************************************************************)
templatePrivateKey == "skT"

paymentUtxoTemplate ==
  [present |-> TRUE, wellFormed |-> TRUE, satoshis |-> 0, script |-> P2pkh("T")]

templateTxCost == 0

\* n placeholder destinations whose amounts sum within the token amount.
buildSplitDestinations(n, satoshis) ==
  [present |-> TRUE,
   list |-> [i \in 1..n |-> [address |-> "addrT", satoshis |-> satoshis \div (n + 1)]]]

(***************************************************************************)
(* unSignedFunc, piece by piece.                                           *)
(***************************************************************************)
\* splitDestinations.reduce((a, b) => a + b.satoshis, 0)
totalOutSats(list) == SumTo([i \in 1..Len(list) |-> list[i].satoshis], Len(list))

\* Variant: the destinations' amounts are not deducted.
redeemSatsWholeAmount(stasUtxo, splitDestinations) == stasUtxo.satoshis

redeemSats(stasUtxo, splitDestinations) ==
  stasUtxo.satoshis - totalOutSats(splitDestinations.list)

EmptyScript == [len |-> 0, fragment |-> FALSE, signedBy |-> NoKey]

\* tx.from(utxo): an input spending the UTXO, with an empty unlocking script.
TxInput(utxo) ==
  [output |-> [script |-> utxo.script, satoshis |-> utxo.satoshis], script |-> EmptyScript]

\* new bsv.Transaction(); tx.from(stasUtxo); if (!isZeroFee) tx.from(paymentUtxo)
TxFrom(stasUtxo, paymentUtxo, isZeroFee) ==
  IF isZeroFee THEN <<TxInput(stasUtxo)>> ELSE <<TxInput(stasUtxo), TxInput(paymentUtxo)>>

\* Variant: the output is added without its plan entry.
AddOutputNoPlan(b, script, satoshis, pkh) ==
  [b EXCEPT !.outputs = Append(@, [script |-> script, satoshis |-> satoshis])]

\* tx.addOutput(...) with outputData.push(...): the output and its plan entry.
AddOutput(b, script, satoshis, pkh) ==
  [b EXCEPT !.outputs = Append(@, [script |-> script, satoshis |-> satoshis]),
            !.outputData = Append(@, [publicKeyHash |-> pkh, satoshis |-> satoshis])]

\* The redeem output and its plan entry.
RedeemOutput(b, redeemPkh, sats) ==
  AddOutput(b, buildP2pkhOutputScript(redeemPkh), sats, redeemPkh)

\* Variant: the destinations are added last to first.
DestinationLoopReversed(b, list, stasScript, isStas20) ==
  LET n == Len(list)
      destinationPublicKeyHash(i) == addressToPKH(list[n + 1 - i].address)
      newScript(i) == updateStasScript(destinationPublicKeyHash(i), stasScript)
      redeemAddr(i) == getRedeemPublicKeyHash(newScript(i))
  IN IF \E i \in 1..n :
          ~checkDestinationAddressCondition(redeemAddr(i), destinationPublicKeyHash(i), isStas20)
     THEN [b EXCEPT !.error = "destination"]
     ELSE [b EXCEPT
             !.outputs = @ \o [i \in 1..n |->
                                 [script |-> newScript(i), satoshis |-> list[n + 1 - i].satoshis]],
             !.outputData = @ \o [i \in 1..n |->
                                    [publicKeyHash |-> destinationPublicKeyHash(i),
                                     satoshis |-> list[n + 1 - i].satoshis]]]

\* for (const destinationData of splitDestinations): each destination is
\* checked and then added, in the order given; a destination that fails the
\* check ends the build.
DestinationLoop(b, list, stasScript, isStas20) ==
  LET n == Len(list)
      destinationPublicKeyHash(i) == addressToPKH(list[i].address)
      newScript(i) == updateStasScript(destinationPublicKeyHash(i), stasScript)
      redeemAddr(i) == getRedeemPublicKeyHash(newScript(i))
  IN IF \E i \in 1..n :
          ~checkDestinationAddressCondition(redeemAddr(i), destinationPublicKeyHash(i), isStas20)
     THEN [b EXCEPT !.error = "destination"]
     ELSE [b EXCEPT
             !.outputs = @ \o [i \in 1..n |->
                                 [script |-> newScript(i), satoshis |-> list[i].satoshis]],
             !.outputData = @ \o [i \in 1..n |->
                                    [publicKeyHash |-> destinationPublicKeyHash(i),
                                     satoshis |-> list[i].satoshis]]]

\* if (!isZeroFee && !isZeroChange)
AddsChange(isZeroFee, isZeroChange) == ~isZeroFee /\ ~isZeroChange

\* The change output and its plan entry.
ChangeOutput(b, paymentPublicKeyHash, paymentUtxo, cost) ==
  AddOutput(b, buildP2pkhOutputScript(paymentPublicKeyHash),
            paymentUtxo.satoshis - cost, paymentPublicKeyHash)

\* Variant: the check is not suppressed in a fee-estimation call.
ChecksChangeAlways(isZeroChange, feeEstimateCall) == isZeroChange

\* if (isZeroChange && !feeEstimateCall)
ChecksChange(isZeroChange, feeEstimateCall) == isZeroChange /\ ~feeEstimateCall

\* if (isStas20 && data !== undefined)
AddsData(isStas20, data) == isStas20 /\ data.defined

\* The data output '006a' + data with zero satoshis; it gets no plan entry.
DataOutput(b, data) ==
  [b EXCEPT !.outputs =
     Append(@, [script |-> [type |-> "data", isStas20 |-> FALSE, ownerPkh |-> "",
                            redeemPkh |-> "", len |-> 2 + data.len],
                satoshis |-> 0])]

\* Input 0: signed with the owner key, or left with the unsigned prefix and
\* described in unsignedData.
SignTokenInput(b, unlocking, ownerPrivateKey, ownerPublicKey) ==
  IF ownerPrivateKey # NoKey
  THEN [b EXCEPT !.inputs[1].script =
          [len |-> unlocking.len + PushLen(72) + PushLen(33), fragment |-> TRUE,
           signedBy |-> ownerPublicKey]]
  ELSE [b EXCEPT !.inputs[1].script =
          [len |-> unlocking.len, fragment |-> TRUE, signedBy |-> NoKey],
                 !.unsignedData =
          Append(@, [inputIndex |-> 0, satoshis |-> b.inputs[1].output.satoshis,
                     script |-> b.inputs[1].output.script, sighash |-> "SIGHASH",
                     publicKeyString |-> ownerPublicKey, stas |-> TRUE])]

\* Variant: the payment input's descriptor repeats the token input's fields.
SignPaymentInputAsToken(b, isZeroFee, paymentPrivateKey, paymentPublicKey) ==
  IF isZeroFee THEN b
  ELSE IF paymentPrivateKey # NoKey
  THEN [b EXCEPT !.inputs[2].script =
          [len |-> PushLen(72) + PushLen(33), fragment |-> FALSE,
           signedBy |-> paymentPublicKey]]
  ELSE [b EXCEPT !.unsignedData =
          Append(@, [inputIndex |-> 0, satoshis |-> b.inputs[2].output.satoshis,
                     script |-> b.inputs[2].output.script, sighash |-> "SIGHASH",
                     publicKeyString |-> paymentPublicKey, stas |-> TRUE])]

\* Input 1, when there is one: signed with the payment key, or described.
SignPaymentInput(b, isZeroFee, paymentPrivateKey, paymentPublicKey) ==
  IF isZeroFee THEN b
  ELSE IF paymentPrivateKey # NoKey
  THEN [b EXCEPT !.inputs[2].script =
          [len |-> PushLen(72) + PushLen(33), fragment |-> FALSE,
           signedBy |-> paymentPublicKey]]
  ELSE [b EXCEPT !.unsignedData =
          Append(@, [inputIndex |-> 1, satoshis |-> b.inputs[2].output.satoshis,
                     script |-> b.inputs[2].output.script, sighash |-> "SIGHASH",
                     publicKeyString |-> paymentPublicKey, stas |-> FALSE])]

\* What a build hands back: {unsignedData, tx} when a descriptor was
\* deferred, the transaction otherwise.
Returned(b) == IF Len(b.unsignedData) > 0 THEN "unsignedData" ELSE "tx"

NoTx == [inputs |-> <<>>, outputs |-> <<>>]

\* A build that threw.
Rejected(a, error, txCreated) ==
  [ran |-> TRUE, args |-> a, error |-> error, txCreated |-> txCreated, tx |-> NoTx,
   outputData |-> <<>>, builderCalled |-> FALSE, builderOutputs |-> <<>>,
   builderPlan |-> <<>>, unsignedData |-> <<>>, returned |-> "none"]

(***************************************************************************)
(* unSignedFunc: one build.  a is the record of its eleven parameters.     *)
(***************************************************************************)
unSignedFunc(a) ==
  IF ~validateRedeemSplitArgs(a.ownerPublicKey, a.stasUtxo, a.paymentPublicKey,
                              a.paymentUtxo, a.splitDestinations)
  THEN Rejected(a, "validation", FALSE)
  ELSE
    LET isZeroFee == ~a.paymentUtxo.present
        paymentPublicKeyHash == getPKHfromPublicKey(a.paymentPublicKey)
        isStas20 == checkIfStas20(a.stasUtxo.script)
        redeemPkh == getRedeemPublicKeyHash(a.stasUtxo.script)
        sats == redeemSats(a.stasUtxo, a.splitDestinations)
        b0 == [error |-> "none", inputs |-> TxFrom(a.stasUtxo, a.paymentUtxo, isZeroFee),
               outputs |-> <<>>, outputData |-> <<>>, unsignedData |-> <<>>]
        b1 == RedeemOutput(b0, redeemPkh, sats)
        b2 == DestinationLoop(b1, a.splitDestinations.list, a.stasUtxo.script, isStas20)
        b3 == IF AddsChange(isZeroFee, a.isZeroChange)
              THEN ChangeOutput(b2, paymentPublicKeyHash, a.paymentUtxo, a.txCost)
              ELSE b2
        data == IF AddsData(isStas20, a.data)
                THEN formatDataToHexStringWithOpCodeConversion(a.data)
                ELSE a.data
        b4 == IF AddsData(isStas20, a.data) THEN DataOutput(b3, data) ELSE b3
        unSignedUnlockingScript ==
          buildUnlockingScriptUnsigned([inputs |-> b4.inputs, outputs |-> b4.outputs],
                                       b4.outputData, isStas20, data, isZeroFee,
                                       a.isZeroChange)
        b5 == SignTokenInput(b4, unSignedUnlockingScript, a.ownerPrivateKey, a.ownerPublicKey)
        b6 == SignPaymentInput(b5, isZeroFee, a.paymentPrivateKey, a.paymentPublicKey)
    IN IF b2.error # "none" THEN Rejected(a, b2.error, TRUE)
       ELSE IF ChecksChange(a.isZeroChange, a.feeEstimateCall) /\ ~a.paymentUtxo.present
       THEN Rejected(a, "TypeError", TRUE)   \* paymentUtxo.satoshis of undefined
       ELSE IF ChecksChange(a.isZeroChange, a.feeEstimateCall)
               /\ ~checkZeroChangeThreshold(a.paymentUtxo.satoshis, a.txCost)
       THEN Rejected(a, "insufficientChange", TRUE)
       ELSE [ran |-> TRUE, args |-> a, error |-> "none", txCreated |-> TRUE,
             tx |-> [inputs |-> b6.inputs, outputs |-> b6.outputs],
             outputData |-> b6.outputData, builderCalled |-> TRUE,
             builderOutputs |-> b4.outputs, builderPlan |-> b4.outputData,
             unsignedData |-> b6.unsignedData, returned |-> Returned(b6)]

\* The record of unSignedFunc's parameters.
BuildArgs(ownerPublicKey, stasUtxo, paymentPublicKey, paymentUtxo, splitDestinations, data, isZeroChange, ownerPrivateKey, paymentPrivateKey, cost, feeEstimateCall) ==
  [ownerPublicKey |-> ownerPublicKey, stasUtxo |-> stasUtxo,
   paymentPublicKey |-> paymentPublicKey, paymentUtxo |-> paymentUtxo,
   splitDestinations |-> splitDestinations, data |-> data, isZeroChange |-> isZeroChange,
   ownerPrivateKey |-> ownerPrivateKey, paymentPrivateKey |-> paymentPrivateKey,
   txCost |-> cost, feeEstimateCall |-> feeEstimateCall]

\* signedFunc: the public keys are read off the private keys (a missing key
\* throws before the build starts), then unSignedFunc runs.
signedFunc(ownerPrivateKey, stasUtxo, splitDestinations, paymentUtxo, paymentPrivateKey, data, isZeroChange, cost, feeEstimateCall) ==
  LET a == BuildArgs(PublicKeyOf(ownerPrivateKey), stasUtxo, PublicKeyOf(paymentPrivateKey),
                     paymentUtxo, splitDestinations, data, isZeroChange, ownerPrivateKey,
                     paymentPrivateKey, cost, feeEstimateCall)
  IN IF ownerPrivateKey = NoKey \/ paymentPrivateKey = NoKey
     THEN [Rejected(a, "TypeError", FALSE) EXCEPT !.ran = FALSE]
     ELSE unSignedFunc(a)

(***************************************************************************)
(* The measured size and the fee of a transaction.                         *)
(***************************************************************************)
\* Per input: outpoint, script length, script, sequence number.
InputsSize(inputs) ==
  SumTo([i \in 1..Len(inputs) |->
           36 + VarIntLen(inputs[i].script.len) + inputs[i].script.len + 4], Len(inputs))

\* Per output: amount, script length, script.
OutputsSize(outputs) ==
  SumTo([i \in 1..Len(outputs) |->
           8 + VarIntLen(outputs[i].script.len) + outputs[i].script.len], Len(outputs))

\* tx._estimateSize()
EstimateSize(tx) ==
  4 + 4 + VarIntLen(Len(tx.inputs)) + VarIntLen(Len(tx.outputs))
  + InputsSize(tx.inputs) + OutputsSize(tx.outputs)

\* new bsv.Transaction(hex).feePerKb(utility.SATS)._estimateFee()
EstimateFee(tx) == (EstimateSize(tx) * SATS + 999) \div 1000

\* Variant: the estimate is built with the caller's destinations.
feeEstimateBuildCallerDestinations(stasUtxo, splitDestinations, data, isZeroChange) ==
  signedFunc(templatePrivateKey, stasUtxo, splitDestinations, paymentUtxoTemplate,
             templatePrivateKey, data, isZeroChange, templateTxCost, TRUE)

\* Variant: the estimate is always built with a change output.
feeEstimateBuildWithChange(stasUtxo, splitDestinations, data, isZeroChange) ==
  LET splitDest == buildSplitDestinations(Len(splitDestinations.list), stasUtxo.satoshis)
  IN signedFunc(templatePrivateKey, stasUtxo, splitDest, paymentUtxoTemplate,
                templatePrivateKey, data, FALSE, templateTxCost, TRUE)

\* The throwaway build of feeEstimate: placeholder destinations, template
\* keys and payment UTXO, the template cost, the check suppressed.
feeEstimateBuild(stasUtxo, splitDestinations, data, isZeroChange) ==
  LET splitDest == buildSplitDestinations(Len(splitDestinations.list), stasUtxo.satoshis)
  IN signedFunc(templatePrivateKey, stasUtxo, splitDest, paymentUtxoTemplate,
                templatePrivateKey, data, isZeroChange, templateTxCost, TRUE)

(***************************************************************************)
(* The state: one call of an exported entry point at a time.               *)
(*   pc      where the call stands: idle, feeEstimate, build, done         *)
(*   entry   the entry point called                                        *)
(*   args    the caller's arguments                                        *)
(*   est     the throwaway build of the fee-estimation pass                *)
(*   txCost  the fee computed from it                                      *)
(*   real    the build with the caller's arguments and that fee            *)
(*   result  what the caller's promise settles to                          *)
(*   prev    the inputs and fee of an earlier feeEstimate call, kept to    *)
(*           compare two calls                                             *)
(***************************************************************************)
NoArgs == BuildArgs(NoKey, NoUtxo, NoKey, NoUtxo, NoDestinations, NoData, FALSE, NoKey, NoKey, 0, FALSE)

NoBuild == [Rejected(NoArgs, "none", FALSE) EXCEPT !.ran = FALSE]

NoCall ==
  [ownerPrivateKey |-> NoKey, ownerPublicKey |-> NoKey, stasUtxo |-> NoUtxo,
   splitDestinations |-> NoDestinations, paymentUtxo |-> NoUtxo,
   paymentPrivateKey |-> NoKey, paymentPublicKey |-> NoKey, data |-> NoData,
   isZeroChange |-> FALSE]

Pending == [kind |-> "pending", error |-> "none", fee |-> 0]

NoPrev == [valid |-> FALSE, stasUtxo |-> NoUtxo, n |-> 0, totalOutSats |-> 0,
           data |-> NoData, isZeroChange |-> FALSE, fee |-> 0]

Init ==
  /\ pc = "idle"
  /\ entry = "none"
  /\ args = NoCall
  /\ est = NoBuild
  /\ txCost = 0
  /\ real = NoBuild
  /\ result = Pending
  /\ prev = NoPrev

\* A call starts: its first step is the fee estimate.
Start(name, a) ==
  /\ pc' = "feeEstimate"
  /\ entry' = name
  /\ args' = a
  /\ UNCHANGED <<est, txCost, real, result, prev>>

\* signed(ownerPrivateKey, stasUtxo, splitDestinations, paymentUtxo,
\*        paymentPrivateKey, data, isZeroChange)
signed ==
  /\ pc = "idle"
  /\ \E osk \in {NoKey, "skO"}, stas \in StasUtxos, dests \in DestinationLists,
     pay \in PaymentUtxos, psk \in {NoKey, "skP"}, data \in Datas, zc \in BOOLEAN :
    Start("signed", [NoCall EXCEPT !.ownerPrivateKey = osk, !.stasUtxo = stas,
                                   !.splitDestinations = dests, !.paymentUtxo = pay,
                                   !.paymentPrivateKey = psk, !.data = data,
                                   !.isZeroChange = zc])

\* unSigned(ownerPublicKey, stasUtxo, paymentPublicKey, paymentUtxo,
\*          splitDestinations, data, isZeroChange)
unSigned ==
  /\ pc = "idle"
  /\ \E opk \in {NoKey, "pkO"}, stas \in StasUtxos, ppk \in {NoKey, "pkP"},
     pay \in PaymentUtxos, dests \in DestinationLists, data \in Datas, zc \in BOOLEAN :
    Start("unSigned", [NoCall EXCEPT !.ownerPublicKey = opk, !.stasUtxo = stas,
                                     !.paymentPublicKey = ppk, !.paymentUtxo = pay,
                                     !.splitDestinations = dests, !.data = data,
                                     !.isZeroChange = zc])

\* A direct call of feeEstimate(stasUtxo, splitDestinations, data, isZeroChange)
feeEstimateEntry ==
  /\ pc = "idle"
  /\ \E stas \in StasUtxos, dests \in DestinationLists, data \in Datas, zc \in BOOLEAN :
    Start("feeEstimate", [NoCall EXCEPT !.stasUtxo = stas, !.splitDestinations = dests,
                                        !.data = data, !.isZeroChange = zc])

Reject(error) == [kind |-> "rejected", error |-> error, fee |-> 0]

\* feeEstimate: the throwaway build, measured.  Reading splitDestinations.length
\* or stasUtxo.satoshis of an absent argument throws before the build.
feeEstimate ==
  /\ pc = "feeEstimate"
  /\ IF ~args.splitDestinations.present \/ ~args.stasUtxo.present
     THEN /\ result' = Reject("TypeError")
          /\ pc' = "done"
          /\ UNCHANGED <<est, txCost>>
     ELSE LET build == feeEstimateBuild(args.stasUtxo, args.splitDestinations,
                                        args.data, args.isZeroChange)
          IN /\ est' = build
             /\ IF est'.error # "none"
                THEN /\ result' = Reject(est'.error)
                     /\ pc' = "done"
                     /\ UNCHANGED txCost
                ELSE /\ txCost' = EstimateFee(est'.tx)
                     /\ IF entry = "feeEstimate"
                        THEN /\ result' = [kind |-> "fee", error |-> "none",
                                           fee |-> txCost']
                             /\ pc' = "done"
                        ELSE /\ pc' = "build"
                             /\ UNCHANGED result
  /\ UNCHANGED <<entry, args, real, prev>>

\* Variant: a build that threw still settles the promise with a transaction.
SettleIgnoringError(build) ==
  /\ real' = build
  /\ result' = [kind |-> "tx", error |-> "none", fee |-> 0]
  /\ pc' = "done"
  /\ UNCHANGED <<entry, args, est, txCost, prev>>

\* The promise of a build settles: with what it returned, or rejected.
Settle(build) ==
  /\ real' = build
  /\ result' = IF real'.error # "none" THEN Reject(real'.error)
               ELSE [kind |-> real'.returned, error |-> "none", fee |-> 0]
  /\ pc' = "done"
  /\ UNCHANGED <<entry, args, est, txCost, prev>>

\* signed, after the estimate: signedFunc with the caller's arguments.
signedBuild ==
  /\ pc = "build" /\ entry = "signed"
  /\ Settle(signedFunc(args.ownerPrivateKey, args.stasUtxo, args.splitDestinations,
                       args.paymentUtxo, args.paymentPrivateKey, args.data,
                       args.isZeroChange, txCost, FALSE))

\* unSigned, after the estimate: unSignedFunc with no private keys.
unSignedBuild ==
  /\ pc = "build" /\ entry = "unSigned"
  /\ Settle(unSignedFunc(BuildArgs(args.ownerPublicKey, args.stasUtxo,
                                   args.paymentPublicKey, args.paymentUtxo,
                                   args.splitDestinations, args.data, args.isZeroChange,
                                   NoKey, NoKey, txCost, FALSE)))

\* The call is over; its transaction, plan and descriptors are dropped.
Return ==
  /\ pc = "done"
  /\ pc' = "idle"
  /\ entry' = "none"
  /\ args' = NoCall
  /\ est' = NoBuild
  /\ txCost' = 0
  /\ real' = NoBuild
  /\ result' = Pending
  /\ UNCHANGED prev

Next == signed \/ unSigned \/ feeEstimateEntry \/ feeEstimate \/ signedBuild \/ unSignedBuild \/ Return

Spec == Init /\ [][Next]_vars

(***************************************************************************)
(* Two feeEstimate calls, one after the other: the first one's inputs and  *)
(* fee are kept in prev.                                                   *)
(***************************************************************************)
Remember ==
  /\ pc = "done" /\ entry = "feeEstimate" /\ result.kind = "fee"
  /\ prev' = [valid |-> TRUE, stasUtxo |-> args.stasUtxo,
              n |-> Len(args.splitDestinations.list),
              totalOutSats |-> totalOutSats(args.splitDestinations.list),
              data |-> args.data,
              isZeroChange |-> args.isZeroChange, fee |-> result.fee]
  /\ pc' = "idle"
  /\ entry' = "none"
  /\ args' = NoCall
  /\ est' = NoBuild
  /\ txCost' = 0
  /\ real' = NoBuild
  /\ result' = Pending

NextFee == feeEstimateEntry \/ feeEstimate \/ Remember \/ Return

FeeSpec == Init /\ [][NextFee]_vars

(***************************************************************************)
(* Properties.                                                             *)
(***************************************************************************)
\* The builds of the current call.
Builds == {est, real}

\* The build ran to its return statement.
ReturnedResult(B) == B.ran /\ B.error = "none"

IsData(output) == output.script.type = "data"
IsChange(output, B) ==
  /\ output.script.type = "p2pkh"
  /\ output.script.ownerPkh = getPKHfromPublicKey(B.args.paymentPublicKey)
HasData(B) == \E i \in 1..Len(B.tx.outputs) : IsData(B.tx.outputs[i])
HasChange(B) == \E i \in 2..Len(B.tx.outputs) : IsChange(B.tx.outputs[i], B)
DestinationCount(B) ==
  Cardinality({i \in 1..Len(B.tx.outputs) : B.tx.outputs[i].script.type = "stas"})
Flag(p) == IF p THEN 1 ELSE 0

\* C1: in every build that returns a result, the amount of output 0 is the
\* token UTXO's satoshis minus the sum of the satoshis of all destinations.
C1_RedeemAmount ==
  \A B \in Builds :
    ReturnedResult(B) =>
      LET list == B.args.splitDestinations.list
      IN B.tx.outputs[1].satoshis
           = B.args.stasUtxo.satoshis - SumTo([i \in 1..Len(list) |-> list[i].satoshis], Len(list))

\* A signed or unSigned build returned with two destinations of different
\* amounts, a payment UTXO and a data output.
C1_Witness ==
  /\ ReturnedResult(real)
  /\ Len(real.args.splitDestinations.list) = 2
  /\ real.args.splitDestinations.list[1].satoshis # real.args.splitDestinations.list[2].satoshis
  /\ real.args.paymentUtxo.present
  /\ HasData(real)
  /\ real.tx.outputs[1].satoshis = 6999

\* C2: in every build that returns a result the outputs are the redeem
\* output, then one output per destination in the order given and with that
\* destination's amount, then the change output if any, then the data output
\* if any, and nothing else.
C2_OutputOrder ==
  \A B \in Builds :
    ReturnedResult(B) =>
      LET outs == B.tx.outputs
          list == B.args.splitDestinations.list
          n == Len(list)
          chg == Flag(HasChange(B))
          dat == Flag(HasData(B))
      IN /\ Len(outs) = 1 + n + chg + dat
         /\ outs[1].script.type = "p2pkh"
         /\ outs[1].script.ownerPkh = B.args.stasUtxo.script.redeemPkh
         /\ \A i \in 1..n :
              /\ outs[1 + i].script.type = "stas"
              /\ outs[1 + i].script.ownerPkh = addressToPKH(list[i].address)
              /\ outs[1 + i].satoshis = list[i].satoshis
         /\ chg = 1 => IsChange(outs[n + 2], B)
         /\ dat = 1 => IsData(outs[n + chg + 2])

\* A build returned with two destinations that differ in address and amount,
\* a change output and a data output.
C2_Witness ==
  /\ ReturnedResult(real)
  /\ Len(real.args.splitDestinations.list) = 2
  /\ real.args.splitDestinations.list[1].satoshis # real.args.splitDestinations.list[2].satoshis
  /\ real.args.splitDestinations.list[1].address # real.args.splitDestinations.list[2].address
  /\ HasChange(real)
  /\ HasData(real)
  /\ Len(real.tx.outputs) = 5

\* C3 (as claimed): a build without a payment UTXO whose arguments pass
\* validation and whose destinations pass the compatibility check produces a
\* transaction with exactly one input and no change output, whatever
\* isZeroChange, feeEstimateCall and data are.
C3_Claim ==
  \A B \in Builds :
    (B.ran /\ ~B.args.paymentUtxo.present /\ B.error \notin {"validation", "destination"}) =>
      /\ B.error = "none"
      /\ Len(B.tx.inputs) = 1
      /\ ~HasChange(B)

\* C4: the signing outcome per input.  With both private keys the result is
\* the transaction alone and every input has a non-empty unlocking script;
\* without the owner key there is exactly one descriptor for input 0 and it
\* is marked as the token input; without the payment key, with a payment
\* UTXO, exactly one descriptor for input 1, not marked; never two
\* descriptors for one input, so at most two; the result carries
\* unsignedData exactly when there is a descriptor.
C4_SigningOutcome ==
  \A B \in Builds :
    ReturnedResult(B) =>
      LET ud == B.unsignedData
          For(k) == {i \in 1..Len(ud) : ud[i].inputIndex = k}
      IN /\ (B.args.ownerPrivateKey # NoKey /\ B.args.paymentPrivateKey # NoKey) =>
              /\ B.returned = "tx"
              /\ ud = <<>>
              /\ \A i \in 1..Len(B.tx.inputs) : B.tx.inputs[i].script.len > 0
         /\ B.args.ownerPrivateKey = NoKey =>
              /\ Cardinality(For(0)) = 1
              /\ \A i \in For(0) : ud[i].stas
         /\ (B.args.paymentPrivateKey = NoKey /\ B.args.paymentUtxo.present) =>
              /\ Cardinality(For(1)) = 1
              /\ \A i \in For(1) : ~ud[i].stas
         /\ \A i, j \in 1..Len(ud) : ud[i].inputIndex = ud[j].inputIndex => i = j
         /\ \A i \in 1..Len(ud) : ud[i].inputIndex \in 0..(Len(B.tx.inputs) - 1)
         /\ Len(ud) <= 2
         /\ (B.returned = "unsignedData") <=> (Len(ud) > 0)

\* An unSigned call returned two descriptors, after an estimate built with
\* both keys that returned none.
C4_Witness ==
  /\ ReturnedResult(real)
  /\ Len(real.unsignedData) = 2
  /\ real.unsignedData[1].inputIndex = 0
  /\ real.unsignedData[2].inputIndex = 1
  /\ ReturnedResult(est)
  /\ est.returned = "tx"
  /\ Len(est.tx.inputs) = 2

\* C5: a build with isZeroChange that is no fee-estimation call, whose
\* arguments pass validation and the destination check and whose payment
\* UTXO leaves less than the dust threshold after txCost, fails with the
\* insufficient-change error and the caller gets no transaction; a
\* fee-estimation call never raises that error.
C5_ZeroChangeCheck ==
  /\ \A B \in Builds :
       ( /\ B.ran
         /\ B.args.isZeroChange
         /\ ~B.args.feeEstimateCall
         /\ B.args.paymentUtxo.present
         /\ B.error \notin {"validation", "destination"}
         /\ B.args.paymentUtxo.satoshis - B.args.txCost < DustThreshold ) =>
           /\ B.error = "insufficientChange"
           /\ B.returned = "none"
           /\ B.tx = NoTx
           /\ result.kind = "rejected"
  /\ \A B \in Builds : (B.ran /\ B.args.feeEstimateCall) => B.error # "insufficientChange"

\* The real build failed the check, after an estimate with the same flag
\* whose placeholder payment amount is below the threshold too.
C5_Witness ==
  /\ real.ran
  /\ real.error = "insufficientChange"
  /\ ReturnedResult(est)
  /\ est.args.isZeroChange
  /\ est.args.feeEstimateCall
  /\ est.args.paymentUtxo.satoshis - est.args.txCost < DustThreshold

\* C6 (as claimed): a build that is no fee-estimation call, with a payment
\* UTXO and change requested, whose payment UTXO cannot cover txCost plus the
\* dust threshold, does not return a transaction with a change output.
\* Stated for a payment UTXO that covers txCost itself, so that the change
\* amount at stake is not negative.
C6_Claim ==
  \A B \in Builds :
    ( /\ B.ran
      /\ ~B.args.feeEstimateCall
      /\ B.args.paymentUtxo.present
      /\ ~B.args.isZeroChange
      /\ B.args.paymentUtxo.satoshis >= B.args.txCost
      /\ B.args.paymentUtxo.satoshis < B.args.txCost + DustThreshold ) =>
        ~(B.error = "none" /\ HasChange(B))

\* C7 (as claimed): a failed call hands the caller nothing, an argument
\* validation failure comes before any transaction object is created in the
\* call, and nothing runs again after a failure.
C7_Claim ==
  result.kind = "rejected" =>
    /\ pc = "done"
    /\ real.returned = "none" /\ real.tx = NoTx /\ real.unsignedData = <<>>
    /\ est.error # "none" => ~real.ran
    /\ result.error = "validation" => \A B \in Builds : ~B.txCreated

\* C7 (amended): a failed call hands the caller nothing and nothing runs
\* again after a failure; a build whose argument validation fails has
\* created no transaction object of its own, while the throwaway transaction
\* of the fee-estimation pass may have been created and dropped before the
\* real build's validation fails.
C7_FailureAborts ==
  /\ result.kind = "rejected" =>
       /\ pc = "done"
       /\ real.returned = "none" /\ real.tx = NoTx /\ real.unsignedData = <<>>
       /\ est.error # "none" => ~real.ran
  /\ \A B \in Builds :
       /\ B.error = "validation" => ~B.txCreated /\ B.tx = NoTx
       /\ B.error # "none" =>
            /\ result.kind = "rejected"
            /\ result.error = B.error
            /\ B.returned = "none"

\* The real build of an unSigned call failed validation after the estimate
\* had built its throwaway transaction.
C7_Witness ==
  /\ result.kind = "rejected"
  /\ real.ran
  /\ real.error = "validation"
  /\ ~real.txCreated
  /\ ReturnedResult(est)
  /\ est.txCreated

\* The two feeEstimate calls at hand: the earlier one in prev, this one done.
TwoFees == prev.valid /\ pc = "done" /\ entry = "feeEstimate" /\ result.kind = "fee"

\* C8 (as claimed): two feeEstimate calls with the same destination count,
\* data presence and change flag return the same fee, and with the same data
\* presence and change flag the fee does not decrease with the count.
C8_Claim ==
  TwoFees =>
    LET n == Len(args.splitDestinations.list)
        sameFlags == /\ prev.data.defined = args.data.defined
                     /\ prev.isZeroChange = args.isZeroChange
    IN /\ (sameFlags /\ prev.n = n) => prev.fee = result.fee
       /\ (sameFlags /\ prev.n <= n) => prev.fee <= result.fee

\* C8 (amended): the fee is a function of the token UTXO, the destination
\* count, the data payload and the isZeroChange flag, whatever the
\* destinations' addresses and amounts are; for a fixed token UTXO, payload
\* and flag it does not decrease when the count increases.
C8_FeeFunction ==
  TwoFees =>
    LET n == Len(args.splitDestinations.list)
        same == /\ prev.stasUtxo = args.stasUtxo
                /\ prev.data = args.data
                /\ prev.isZeroChange = args.isZeroChange
    IN /\ (same /\ prev.n = n) => prev.fee = result.fee
       /\ (same /\ prev.n <= n) => prev.fee <= result.fee

\* Two calls that agree on token UTXO, count, payload and flag and differ in
\* the destinations' amounts.
C8_Witness ==
  /\ TwoFees
  /\ prev.stasUtxo = args.stasUtxo
  /\ prev.data = args.data
  /\ prev.isZeroChange = args.isZeroChange
  /\ prev.n = 2
  /\ Len(args.splitDestinations.list) = 2
  /\ prev.totalOutSats # totalOutSats(args.splitDestinations.list)
  /\ prev.fee = result.fee

\* The two passes of a signed or unSigned call both returned.
BothPasses == pc = "done" /\ ReturnedResult(est) /\ ReturnedResult(real)

\* C9 (as claimed): the estimate's transaction and the real transaction have
\* the same number of inputs and of destination outputs, and a change output
\* and a data output in one exactly when in the other.
C9_Claim ==
  BothPasses =>
    /\ Len(est.tx.inputs) = Len(real.tx.inputs)
    /\ DestinationCount(est) = DestinationCount(real)
    /\ HasChange(est) <=> HasChange(real)
    /\ HasData(est) <=> HasData(real)

\* C9 (amended): the two transactions have the same number of destination
\* outputs and a data output in one exactly when in the other; when the
\* caller supplies a payment UTXO they also have the same number of inputs
\* and a change output in one exactly when in the other; when the caller
\* supplies none, the estimate still has the template payment input and a
\* change output, and the real transaction has one input and no change.
C9_SameShape ==
  BothPasses =>
    /\ DestinationCount(est) = DestinationCount(real)
    /\ DestinationCount(real) = Len(args.splitDestinations.list)
    /\ HasData(est) <=> HasData(real)
    /\ args.paymentUtxo.present =>
         /\ Len(est.tx.inputs) = Len(real.tx.inputs)
         /\ HasChange(est) <=> HasChange(real)
    /\ ~args.paymentUtxo.present =>
         /\ Len(est.tx.inputs) = 2
         /\ Len(real.tx.inputs) = 1
         /\ HasChange(est)
         /\ ~HasChange(real)

\* Both passes returned for a call with a payment UTXO, two destinations, a
\* change output and a data output.
C9_Witness ==
  /\ BothPasses
  /\ args.paymentUtxo.present
  /\ Len(args.splitDestinations.list) = 2
  /\ HasChange(real)
  /\ HasData(real)
  /\ Len(real.tx.inputs) = 2

\* C10 (as claimed): when the unlocking-script builder is invoked the plan
\* has one entry per output of the transaction, in order, with its amount.
C10_Claim ==
  \A B \in Builds :
    B.builderCalled =>
      /\ Len(B.builderPlan) = Len(B.builderOutputs)
      /\ \A i \in 1..Len(B.builderPlan) :
           i <= Len(B.builderOutputs) => B.builderPlan[i].satoshis = B.builderOutputs[i].satoshis

\* C10 (amended): when the unlocking-script builder is invoked the plan has
\* one entry per output other than the data output, in the order of the
\* outputs, with that output's amount and public-key hash; the data output,
\* always the last one, has no entry.
C10_PlanInLockstep ==
  \A B \in Builds :
    B.builderCalled =>
      LET outs == B.builderOutputs
          plan == B.builderPlan
          m == Len(plan)
          dat == Cardinality({i \in 1..Len(outs) : IsData(outs[i])})
      IN /\ dat <= 1
         /\ Len(outs) = m + dat
         /\ \A i \in 1..m :
              /\ plan[i].satoshis = outs[i].satoshis
              /\ plan[i].publicKeyHash = outs[i].script.ownerPkh
              /\ ~IsData(outs[i])
         /\ dat = 1 => IsData(outs[m + 1])
         /\ outs = B.tx.outputs

\* The builder was invoked for two destinations, a change output and a data
\* output: five outputs, four plan entries.
C10_Witness ==
  /\ real.builderCalled
  /\ Len(real.builderOutputs) = 5
  /\ Len(real.builderPlan) = 4
  /\ IsData(real.builderOutputs[5])
  /\ HasChange(real)

====
